---- MODULE Spec2Model ----
(***************************************************************************)
(* Options ticker tunnel: the allow-list gate and HTTP facade              *)
(* (tunnel_api.py), the store client and query engine                      *)
(* (external_db_access.py) and the connection policy (db_config.py).       *)
(*                                                                         *)
(* Python strings the code inspects (assets, expiries, symbols, raw field  *)
(* values) are sequences of one-character strings, so that upper(),        *)
(* substring search, endswith and float() are computed and not assumed.    *)
(* Host names, field names and status words are never inspected and are    *)
(* plain strings.  Python's None is the string "None" where the slot holds *)
(* a string, and the empty sequence where it holds an object.              *)
(***************************************************************************)
EXTENDS Integers, Sequences, FiniteSets, TLC

VARIABLES
    env,        \* the process environment (REDIS_HOST, REDIS_PORT, ...)
    up,         \* the endpoints <<host, port>> that answer a ping right now
    doc,        \* the content of allowed_tickers.json
    store,      \* the backing store: symbol of key option:<symbol> -> hash
    resp,       \* the facade: the outcome of the last HTTP handler
    db,         \* the client: an OptionsDatabase (redis_client, connection_params)
    overrides,  \* the client: the connection_overrides it was constructed with
    closed,     \* the client: close() was called and no connect succeeded since
    probed_down,\* the client: is_connected() returned False and no connect succeeded since
    last,       \* the client: the last call made on db and what it returned
    raw,        \* the mapper: the raw field map given to _parse_option_data
    parsed      \* the mapper: whether it has run, and the record it returned

vars == <<env, up, doc, store, resp, db, overrides, closed, probed_down, last,
          raw, parsed>>

None == "None"

----------------------------------------------------------------------------
(* Strings as character sequences *)

StartsWith(s, p) == Len(p) <= Len(s) /\ SubSeq(s, 1, Len(p)) = p

EndsWith(s, p) == Len(p) <= Len(s) /\ SubSeq(s, Len(s) - Len(p) + 1, Len(s)) = p

\* Python's `p in s` on strings
Contains(s, p) ==
    \E i \in 0..(Len(s) - Len(p)) : SubSeq(s, i + 1, i + Len(p)) = p

UpperChar(c) ==
    CASE c = "b" -> "B"
      [] c = "t" -> "T"
      [] c = "c" -> "C"
      [] c = "e" -> "E"
      [] c = "h" -> "H"
      [] OTHER   -> c

\* str.upper()
Upper(s) == [i \in DOMAIN s |-> UpperChar(s[i])]

BTC == <<"B", "T", "C">>
btc == <<"b", "t", "c">>
ETH == <<"E", "T", "H">>
D29 == <<"2", "9", "D", "E", "C", "2", "3">>
D30 == <<"3", "0", "D", "E", "C", "2", "3">>
Dash == <<"-">>

\* {asset}-{expiry}-{strike}-{C|P}
Symbol(asset, expiry, strike, cp) ==
    asset \o Dash \o expiry \o Dash \o strike \o Dash \o <<cp>>

BTC_29_C == Symbol(BTC, D29, <<"5", "0">>, "C")
BTC_30_P == Symbol(BTC, D30, <<"5", "0">>, "P")
ETH_29_P == Symbol(ETH, D29, <<"3", "0">>, "P")

----------------------------------------------------------------------------
(* Connection policy: db_config.py *)

DockerPort == 6380
StandardPort == 6379
DefaultTimeout == 5
LocalTimeout == 2

DEFAULT_SETTINGS ==
    [host |-> "localhost", port |-> DockerPort, db |-> 0, password |-> None,
     socket_timeout |-> DefaultTimeout]

\* int(s) on the values the environment takes here; "None" is the unset variable
IntParses(s) == s \in {"0", "1", "6379", "7000"}

IntOf(s) ==
    CASE s = "0" -> 0
      [] s = "1" -> 1
      [] s = "6379" -> 6379
      [] s = "7000" -> 7000

\* int(os.getenv(NAME, '0')) raises ValueError
EnvRaises(e) ==
    \/ (e.REDIS_PORT # None /\ ~IntParses(e.REDIS_PORT))
    \/ (e.REDIS_DB # None /\ ~IntParses(e.REDIS_DB))

\* int(os.getenv(NAME, '0')) or None, as <<>> for None and <<n>> for n
EnvInt(s) ==
    LET n == IF s = None THEN 0 ELSE IntOf(s)
    IN  IF n = 0 THEN <<>> ELSE <<n>>

\* params.update(ov): ov is a record of the overridden keys (<<>> for none)
Update(params, ov) ==
    [k \in DOMAIN params \cup DOMAIN ov |->
        IF k \in DOMAIN ov THEN ov[k] ELSE params[k]]

\* RedisConfig.get_connection_params(**ov), defined when ~EnvRaises(e)
get_connection_params(e, ov) ==
    LET p0 == DEFAULT_SETTINGS
        p1 == IF e.REDIS_HOST # None THEN [p0 EXCEPT !.host = e.REDIS_HOST] ELSE p0
        p2 == IF EnvInt(e.REDIS_PORT) # <<>>
              THEN [p1 EXCEPT !.port = EnvInt(e.REDIS_PORT)[1]] ELSE p1
        p3 == IF EnvInt(e.REDIS_DB) # <<>>
              THEN [p2 EXCEPT !.db = EnvInt(e.REDIS_DB)[1]] ELSE p2
        p4 == IF e.REDIS_PASSWORD # None
              THEN [p3 EXCEPT !.password = e.REDIS_PASSWORD] ELSE p3
    IN  Update(p4, ov)

is_docker_setup == DEFAULT_SETTINGS.port = DockerPort

LocalDevConfig ==
    [host |-> "localhost", port |-> StandardPort, db |-> 0,
     socket_timeout |-> LocalTimeout]

\* RedisConfig.get_fallback_configs()
get_fallback_configs(e) ==
    <<get_connection_params(e, <<>>),
      get_connection_params(e, [port |-> StandardPort])>>
    \o (IF is_docker_setup THEN <<LocalDevConfig>> ELSE <<>>)

----------------------------------------------------------------------------
(* Store client: external_db_access.py *)

Endpoint(config) == <<config.host, config.port>>

\* redis.Redis(**config).ping() answers
Probe(config, reachable) == Endpoint(config) \in reachable

\* _try_connect: [client, ok]; the handle is replaced only on success
try_connect(client, config, reachable) ==
    IF Probe(config, reachable)
    THEN [client |-> [client EXCEPT !.redis_client = <<config>>], ok |-> TRUE]
    ELSE [client |-> client, ok |-> FALSE]

\* The loop of _connect over the fallbacks, from the i-th on
RECURSIVE try_fallbacks(_, _, _, _, _)
try_fallbacks(client, configs, i, reachable, attempted) ==
    IF i > Len(configs)
    THEN [client |-> client, ok |-> FALSE, attempted |-> attempted]
    ELSE LET r == try_connect(client, configs[i], reachable)
         IN  IF r.ok
             THEN [client |-> [r.client EXCEPT !.connection_params = configs[i]],
                   ok |-> TRUE,
                   attempted |-> Append(attempted, configs[i])]
             ELSE try_fallbacks(r.client, configs, i + 1, reachable,
                                Append(attempted, configs[i]))

\* _connect: [client, ok, attempted], attempted the configurations tried, in order
connect(client, e, reachable) ==
    LET r == try_connect(client, client.connection_params, reachable)
    IN  IF r.ok
        THEN [client |-> r.client, ok |-> TRUE,
              attempted |-> <<client.connection_params>>]
        ELSE try_fallbacks(r.client, get_fallback_configs(e), 1, reachable,
                           <<client.connection_params>>)

\* OptionsDatabase.__init__(**ov), defined when ~EnvRaises(e)
NewClient(e, ov, reachable) ==
    connect([redis_client |-> <<>>,
             connection_params |-> get_connection_params(e, ov)], e, reachable)

is_connected(client, reachable) ==
    /\ client.redis_client # <<>>
    /\ Probe(client.redis_client[1], reachable)

\* close() that releases the handle but forgets to drop the reference
close_keeps_handle(client) == client

close(client) ==
    IF client.redis_client # <<>>
    THEN [client EXCEPT !.redis_client = <<>>]
    ELSE client

----------------------------------------------------------------------------
(* Record mapper: _parse_option_data *)

float_fields ==
    {"last_price", "mark_price", "index_price", "mark_iv",
     "underlying_price", "bid_price", "ask_price", "open_interest",
     "volume_24h", "turnover_24h", "delta", "gamma", "theta", "vega",
     "bid_size", "ask_size", "bid_iv", "ask_iv"}

Digits == {"0", "1", "2", "3", "4", "5", "6", "7", "8", "9"}

DigitVal(c) ==
    CASE c = "0" -> 0 [] c = "1" -> 1 [] c = "2" -> 2 [] c = "3" -> 3
      [] c = "4" -> 4 [] c = "5" -> 5 [] c = "6" -> 6 [] c = "7" -> 7
      [] c = "8" -> 8 [] c = "9" -> 9

AllDigits(s) == \A i \in DOMAIN s : s[i] \in Digits

RECURSIVE NatOf(_)
NatOf(s) ==
    IF s = <<>> THEN 0
    ELSE NatOf(SubSeq(s, 1, Len(s) - 1)) * 10 + DigitVal(s[Len(s)])

RECURSIVE LStrip(_)
LStrip(s) == IF s # <<>> /\ s[1] = " " THEN LStrip(Tail(s)) ELSE s

RECURSIVE RStrip(_)
RStrip(s) ==
    IF s # <<>> /\ s[Len(s)] = " " THEN RStrip(SubSeq(s, 1, Len(s) - 1)) ELSE s

\* The fraction digits as thousandths (inputs carry at most three of them)
Thousandths(fp) ==
    NatOf(SubSeq(fp \o <<"0", "0", "0">>, 1, 3))

\* An unsigned decimal literal: digits, at most one point, a digit somewhere
UnsignedFloat(s) ==
    LET dots == {i \in DOMAIN s : s[i] = "."}
    IN  IF dots = {}
        THEN IF s # <<>> /\ AllDigits(s) THEN <<NatOf(s) * 1000>> ELSE <<>>
        ELSE IF Cardinality(dots) = 1
        THEN LET d == CHOOSE i \in dots : TRUE
                 ip == SubSeq(s, 1, d - 1)
                 fp == SubSeq(s, d + 1, Len(s))
             IN  IF AllDigits(ip) /\ AllDigits(fp) /\ Len(ip) + Len(fp) >= 1
                 THEN <<NatOf(ip) * 1000 + Thousandths(fp)>>
                 ELSE <<>>
        ELSE <<>>

\* float(s) for s over digits, ".", "+", "-", " " and letters that spell no
\* float word: <<>> for ValueError, else <<v>> with v the value in thousandths
ParseFloat(s) ==
    LET t == RStrip(LStrip(s))
    IN  IF t = <<>> THEN <<>>
        ELSE IF t[1] = "-"
        THEN LET u == UnsignedFloat(Tail(t))
             IN  IF u = <<>> THEN <<>> ELSE <<0 - u[1]>>
        ELSE IF t[1] = "+" THEN UnsignedFloat(Tail(t))
        ELSE UnsignedFloat(t)

\* _parse_option_data(data): data a dict field -> string, {} is <<>>
parse_option_data(data) ==
    IF DOMAIN data = {} THEN <<>>
    ELSE [f \in {"symbol"} \cup ((float_fields \cup {"timestamp"}) \cap DOMAIN data) |->
            IF f = "symbol"
            THEN IF "symbol" \in DOMAIN data THEN data["symbol"] ELSE <<>>
            ELSE LET p == ParseFloat(data[f])
                 IN  IF p = <<>> THEN 0 ELSE p[1]]

----------------------------------------------------------------------------
(* Query engine *)

\* get_option(symbol)
get_option(client, symbol, reachable, st) ==
    IF ~is_connected(client, reachable) THEN <<>>
    ELSE IF symbol \in DOMAIN st THEN parse_option_data(st[symbol])
    ELSE <<>>

\* The keys get_all_symbols(asset) lists, "option:" stripped; a falsy asset
\* (None or '') is <<>> and lists every key.  The store returns them unordered.
all_symbols(client, asset, reachable, st) ==
    IF ~is_connected(client, reachable) THEN {}
    ELSE {s \in DOMAIN st : asset = <<>> \/ StartsWith(s, asset \o Dash)}

\* The orders in which a key listing can come back
Orders(S) ==
    {o \in [1..Cardinality(S) -> S] : \A i, j \in DOMAIN o : o[i] = o[j] => i = j}

\* The loop of get_options_by_expiry over the listed symbols
RECURSIVE options_by_expiry(_, _, _, _, _)
options_by_expiry(client, symbols, expiry, reachable, st) ==
    IF symbols = <<>> THEN <<>>
    ELSE LET symbol == Head(symbols)
             rest == options_by_expiry(client, Tail(symbols), expiry, reachable, st)
             data == get_option(client, symbol, reachable, st)
         IN  IF Contains(symbol, Dash \o expiry \o Dash) /\ data # <<>>
             THEN <<data>> \o rest
             ELSE rest

----------------------------------------------------------------------------
(* The worlds the program runs in *)

Env0 ==
    [REDIS_HOST |-> None, REDIS_PORT |-> None, REDIS_DB |-> None,
     REDIS_PASSWORD |-> None]
EnvHost == [Env0 EXCEPT !.REDIS_HOST = "redis"]
\* REDIS_PORT set to the empty string: int('') raises ValueError
EnvEmptyPort == [Env0 EXCEPT !.REDIS_PORT = ""]

\* Environments under which a client can be constructed
ClientEnvs == {Env0, EnvHost}
\* Environments of the serving process
FacadeEnvs == {Env0, EnvHost, EnvEmptyPort}

\* The keyword arguments a caller constructs a client with
OverrideSet == {<<>>, [port |-> 7000]}

\* The endpoints some candidate of environment e points at
Endpoints(e, ovs) ==
    IF EnvRaises(e) THEN {} ELSE
    {Endpoint(get_connection_params(e, ov)) : ov \in ovs}
    \cup {Endpoint(get_fallback_configs(e)[i]) : i \in 1..Len(get_fallback_configs(e))}

V150000 == <<"1", "5", "0", "0", "0", "0">>
V0_8 == <<"0", ".", "8">>
Vabc == <<"x", "y", "z">>

\* Scenario A of the specification plus two more options
StoreA ==
    (BTC_29_C :> [symbol |-> BTC_29_C, volume_24h |-> V150000, mark_iv |-> V0_8])
    @@ (BTC_30_P :> [symbol |-> BTC_30_P, volume_24h |-> Vabc])
    @@ (ETH_29_P :> [symbol |-> ETH_29_P, open_interest |-> V0_8])

\* A producer that wrote a hash whose symbol field is not its key's symbol,
\* and one without a symbol field
StoreB ==
    (BTC_29_C :> [symbol |-> BTC_30_P, volume_24h |-> V150000])
    @@ (ETH_29_P :> [mark_iv |-> V0_8])

StoreEmpty == <<>>

StoreSet == {StoreA, StoreB, StoreEmpty}

QuerySymbols == {BTC_29_C, BTC_30_P}
QueryAssets == {<<>>, BTC, btc}
RequestAssets == {BTC, btc, ETH}
Expiries == {D29, D30}

IdleResp ==
    [handler |-> "none", asset |-> <<>>, expiry |-> <<>>, code |-> 0,
     status |-> "", database |-> "", allowed |-> "", constructed |-> FALSE,
     attempts |-> 0, queries |-> 0, closed |-> FALSE, handle |-> <<>>,
     raised |-> 0, available |-> 0,
     total_options |-> 0, call_options |-> 0, put_options |-> 0]

NotParsed == [done |-> FALSE, rec |-> <<>>]

IdleLast ==
    [op |-> "none", symbol |-> <<>>, asset |-> <<>>, expiry |-> <<>>,
     ok |-> FALSE, rec |-> <<>>, list |-> <<>>, attempted |-> <<>>,
     before |-> <<>>]

----------------------------------------------------------------------------
(* Allow-list gate: load_config, is_allowed *)

\* A JSON field of an entry: absent key, null, or a string
Missing == [t |-> "missing", s |-> <<>>]
Null == [t |-> "null", s |-> <<>>]
StrField(s) == [t |-> "str", s |-> s]

\* A JSON item of the allowed list: an object, or something else (a number)
Entry(asset, expiry) == [t |-> "object", asset |-> asset, expiry |-> expiry]
NumberItem == [t |-> "number", asset |-> Missing, expiry |-> Missing]

\* The document: no file, a file that is not JSON, a JSON array at the root,
\* or a JSON object whose "allowed" is absent, null or a list of items
DocAbsent == [kind |-> "absent", allowed |-> [t |-> "missing", items |-> <<>>]]
DocInvalid == [kind |-> "invalid", allowed |-> [t |-> "missing", items |-> <<>>]]
DocArray == [kind |-> "array", allowed |-> [t |-> "missing", items |-> <<>>]]
DocNoKey == [kind |-> "object", allowed |-> [t |-> "missing", items |-> <<>>]]
DocNull == [kind |-> "object", allowed |-> [t |-> "null", items |-> <<>>]]
DocList(items) == [kind |-> "object", allowed |-> [t |-> "list", items |-> items]]

\* load_config(): FileNotFoundError and JSONDecodeError give {"allowed": []},
\* any other content is returned as json.load parsed it
load_config(d) ==
    IF d.kind \in {"absent", "invalid"} THEN DocList(<<>>) ELSE d

\* item.get('expiry', '') == expiry
ExpiryEquals(field, expiry) ==
    \/ (field.t = "missing" /\ expiry = <<>>)
    \/ (field.t = "str" /\ field.s = expiry)

\* The loop of is_allowed: "true", "false", or "raise" when an item has no
\* .get (AttributeError) or its asset has no .upper (AttributeError)
RECURSIVE scan_allowed(_, _, _)
scan_allowed(items, asset, expiry) ==
    IF items = <<>> THEN "false"
    ELSE LET item == Head(items)
         IN  IF item.t # "object" THEN "raise"
             ELSE IF item.asset.t = "null" THEN "raise"
             ELSE IF /\ Upper(item.asset.s) = Upper(asset)
                     /\ ExpiryEquals(item.expiry, expiry)
             THEN "true"
             ELSE scan_allowed(Tail(items), asset, expiry)

\* is_allowed(asset, expiry): "raise" also when the root has no .get
\* (AttributeError) or "allowed" is not iterable (TypeError)
is_allowed(d, asset, expiry) ==
    LET config == load_config(d)
    IN  IF config.kind # "object" THEN "raise"
        ELSE IF config.allowed.t = "null" THEN "raise"
        ELSE scan_allowed(config.allowed.items, asset, expiry)

\* len(config.get('allowed', [])): <<>> when it raises, else <<n>>
allowed_len(d) ==
    LET config == load_config(d)
    IN  IF config.kind # "object" THEN <<>>
        ELSE IF config.allowed.t = "null" THEN <<>>
        ELSE <<Len(config.allowed.items)>>

----------------------------------------------------------------------------
(* One client over its lifetime: SpecClient *)

ClientInit ==
    /\ env \in ClientEnvs
    /\ overrides \in OverrideSet
    /\ up \in SUBSET Endpoints(env, {overrides})
    /\ store \in StoreSet
    /\ LET r == NewClient(env, overrides, up)
       IN  /\ db = r.client
           /\ last = [IdleLast EXCEPT !.op = "__init__", !.ok = r.ok,
                         !.attempted = r.attempted,
                         !.before = <<[redis_client |-> <<>>,
                                       connection_params |->
                                           get_connection_params(env, overrides)]>>]
    /\ closed = FALSE
    /\ probed_down = FALSE
    /\ doc = DocAbsent
    /\ resp = IdleResp
    /\ raw = <<>>
    /\ parsed = NotParsed

\* db.reconnect()
Reconnect ==
    LET r == connect(db, env, up)
    IN  /\ db' = r.client
        /\ closed' = (closed /\ ~r.ok)
        /\ probed_down' = (probed_down /\ ~r.ok)
        /\ last' = [IdleLast EXCEPT !.op = "reconnect", !.ok = r.ok,
                       !.attempted = r.attempted, !.before = <<db>>]
        /\ UNCHANGED <<env, up, doc, store, resp, overrides, raw, parsed>>

\* db.is_connected()
IsConnected ==
    /\ last' = [IdleLast EXCEPT !.op = "is_connected", !.ok = is_connected(db, up)]
    /\ probed_down' = (probed_down \/ ~is_connected(db, up))
    /\ UNCHANGED <<env, up, doc, store, resp, db, overrides, closed, raw, parsed>>

\* db.close(); the handle's own close() may raise and is swallowed
Close ==
    \E handle_close_raises \in BOOLEAN :
        /\ db' = close(db)
        /\ closed' = TRUE
        /\ last' = [IdleLast EXCEPT !.op = "close", !.before = <<db>>]
        /\ UNCHANGED <<env, up, doc, store, resp, overrides, probed_down, raw,
                       parsed>>

\* db.get_option(symbol)
GetOption ==
    \E symbol \in QuerySymbols :
        /\ last' = [IdleLast EXCEPT !.op = "get_option", !.symbol = symbol,
                       !.rec = get_option(db, symbol, up, store)]
        /\ probed_down' = (probed_down \/ ~is_connected(db, up))
        /\ UNCHANGED <<env, up, doc, store, resp, db, overrides, closed, raw, parsed>>

\* db.get_all_symbols(asset)
GetAllSymbols ==
    \E asset \in QueryAssets :
      \E order \in Orders(all_symbols(db, asset, up, store)) :
        /\ last' = [IdleLast EXCEPT !.op = "get_all_symbols", !.asset = asset,
                       !.list = order]
        /\ probed_down' = (probed_down \/ ~is_connected(db, up))
        /\ UNCHANGED <<env, up, doc, store, resp, db, overrides, closed, raw, parsed>>

\* db.get_options_by_expiry(expiry, asset)
GetOptionsByExpiry ==
    \E expiry \in Expiries, asset \in QueryAssets :
      \E order \in Orders(all_symbols(db, asset, up, store)) :
        /\ last' = [IdleLast EXCEPT !.op = "get_options_by_expiry",
                       !.asset = asset, !.expiry = expiry,
                       !.list = options_by_expiry(db, order, expiry, up, store)]
        /\ probed_down' = (probed_down \/ ~is_connected(db, up))
        /\ UNCHANGED <<env, up, doc, store, resp, db, overrides, closed, raw, parsed>>

\* An endpoint of the store goes down or comes back
StoreChange ==
    \E ep \in Endpoints(env, {overrides}) :
        /\ up' = IF ep \in up THEN up \ {ep} ELSE up \cup {ep}
        /\ last' = IdleLast
        /\ resp' = IdleResp
        /\ UNCHANGED <<env, doc, store, db, overrides, closed, probed_down, raw,
                       parsed>>

ClientNext ==
    \/ Reconnect
    \/ IsConnected
    \/ Close
    \/ GetOption
    \/ GetAllSymbols
    \/ GetOptionsByExpiry
    \/ StoreChange

SpecClient == ClientInit /\ [][ClientNext]_vars

----------------------------------------------------------------------------
(* The HTTP facade: Spec *)

I_BTC29 == Entry(StrField(BTC), StrField(D29))
I_btc29 == Entry(StrField(btc), StrField(D29))
I_ETH30 == Entry(StrField(ETH), StrField(D30))
I_NullAsset == Entry(Null, StrField(D29))
I_Bare == Entry(Missing, Missing)

ItemSet == {I_BTC29, I_btc29, I_ETH30, I_NullAsset, I_Bare, NumberItem}

MaxEntries == 2

Lists == UNION {[1..n -> ItemSet] : n \in 0..MaxEntries}

Docs ==
    {DocAbsent, DocInvalid, DocArray, DocNoKey, DocNull}
    \cup {DocList(items) : items \in Lists}

NoClient == [redis_client |-> <<>>, connection_params |-> DEFAULT_SETTINGS]

Init ==
    /\ env \in FacadeEnvs
    /\ overrides = <<>>
    /\ up \in SUBSET Endpoints(env, {overrides})
    /\ doc \in Docs
    /\ store = StoreA
    /\ resp = IdleResp
    /\ db = NoClient
    /\ closed = FALSE
    /\ probed_down = FALSE
    /\ last = IdleLast
    /\ raw = <<>>
    /\ parsed = NotParsed

\* Store commands one is_connected() issues: a ping when a handle is held
Pings(client) == IF client.redis_client # <<>> THEN 1 ELSE 0

\* The symbols of a listing that get_options_by_expiry goes on to fetch
Fetched(symbols, expiry) ==
    {i \in DOMAIN symbols : Contains(symbols[i], Dash \o expiry \o Dash)}

\* get_ticker past the gate, environment readable: the try block and its
\* except/finally, with the key listing coming back in the given order
ticker_try(base, asset, expiry, order) ==
    LET r == NewClient(env, <<>>, up)
        client == r.client
        made == [base EXCEPT !.constructed = TRUE, !.attempts = Len(r.attempted),
                    !.closed = TRUE, !.handle = close(client).redis_client]
        options == options_by_expiry(client, order, expiry, up, store)
    IN  IF ~is_connected(client, up)
        THEN \* HTTPException(503) is raised inside the try and caught by
             \* `except Exception`, which raises HTTPException(500)
             [made EXCEPT !.raised = 503, !.code = 500, !.queries = Pings(client)]
        ELSE [made EXCEPT
                !.code = 200,
                !.queries = 3 + 2 * Cardinality(Fetched(order, expiry)),
                !.total_options = Len(options),
                !.call_options = Cardinality({i \in DOMAIN options :
                    EndsWith(options[i]["symbol"], <<"-", "C">>)}),
                !.put_options = Cardinality({i \in DOMAIN options :
                    EndsWith(options[i]["symbol"], <<"-", "P">>)})]

\* GET /ticker/{asset}/{expiry}
GetTicker ==
    \E asset \in RequestAssets, expiry \in Expiries :
      LET base == [IdleResp EXCEPT !.handler = "ticker", !.asset = asset,
                      !.expiry = expiry, !.allowed = is_allowed(doc, asset, expiry)]
      IN  /\ \/ \* is_allowed raised outside the try: the framework answers 500
                /\ base.allowed = "raise"
                /\ resp' = [base EXCEPT !.code = 500]
             \/ /\ base.allowed = "false"
                /\ resp' = [base EXCEPT !.raised = 404, !.code = 404]
             \/ \* connect_to_database() raised ValueError: db is unbound, the
                \* NameError of db.close() in finally is swallowed
                /\ base.allowed = "true"
                /\ EnvRaises(env)
                /\ resp' = [base EXCEPT !.code = 500]
             \/ /\ base.allowed = "true"
                /\ ~EnvRaises(env)
                /\ \E order \in Orders(all_symbols(NewClient(env, <<>>, up).client,
                                                   asset, up, store)) :
                       resp' = ticker_try(base, asset, expiry, order)
          /\ UNCHANGED <<env, up, doc, store, db, overrides, closed,
                     probed_down, last, raw, parsed>>

\* GET /config
ShowConfig ==
    LET base == [IdleResp EXCEPT !.handler = "config", !.code = 200]
    IN  /\ \/ /\ EnvRaises(env)
              /\ resp' = [base EXCEPT !.database = "disconnected"]
           \/ /\ ~EnvRaises(env)
              /\ LET r == NewClient(env, <<>>, up)
                     client == r.client
                     db_connected == is_connected(client, up)
                 IN  resp' = [base EXCEPT
                        !.constructed = TRUE,
                        !.attempts = Len(r.attempted),
                        !.database = IF db_connected THEN "connected"
                                     ELSE "disconnected",
                        !.queries = IF db_connected THEN 11 ELSE Pings(client),
                        !.total_options =
                            Cardinality(all_symbols(client, <<>>, up, store)),
                        !.closed = TRUE,
                        !.handle = close(client).redis_client]
        /\ UNCHANGED <<env, up, doc, store, db, overrides, closed,
                     probed_down, last, raw, parsed>>

\* GET /health
HealthCheck ==
    LET base == [IdleResp EXCEPT !.handler = "health", !.code = 200]
    IN  /\ \/ /\ EnvRaises(env)
              /\ resp' = [base EXCEPT !.status = "error"]
           \/ /\ ~EnvRaises(env)
              /\ LET r == NewClient(env, <<>>, up)
                     client == r.client
                     db_ok == is_connected(client, up)
                     made == [base EXCEPT !.constructed = TRUE,
                                 !.attempts = Len(r.attempted),
                                 !.queries = Pings(client),
                                 !.handle = client.redis_client]
                     n == allowed_len(doc)
                 IN  IF n = <<>>
                     THEN resp' = [made EXCEPT !.status = "error"]
                     ELSE resp' = [made EXCEPT
                            !.status = IF db_ok /\ n[1] > 0 THEN "healthy"
                                       ELSE "unhealthy",
                            !.database = IF db_ok THEN "connected"
                                         ELSE "disconnected",
                            !.available = n[1]]
        /\ UNCHANGED <<env, up, doc, store, db, overrides, closed,
                     probed_down, last, raw, parsed>>

\* GET /
Root ==
    LET base == [IdleResp EXCEPT !.handler = "root"]
        n == allowed_len(doc)
    IN  /\ resp' = IF n = <<>> THEN [base EXCEPT !.code = 500]
                   ELSE [base EXCEPT !.code = 200, !.available = n[1]]
        /\ UNCHANGED <<env, up, doc, store, db, overrides, closed,
                     probed_down, last, raw, parsed>>

\* A direct call of is_allowed(asset, expiry)
IsAllowedCall ==
    \E asset \in RequestAssets, expiry \in Expiries :
        /\ resp' = [IdleResp EXCEPT !.handler = "is_allowed", !.asset = asset,
                       !.expiry = expiry, !.allowed = is_allowed(doc, asset, expiry)]
        /\ UNCHANGED <<env, up, doc, store, db, overrides, closed,
                     probed_down, last, raw, parsed>>

\* allowed_tickers.json is edited, created or removed
EditDoc ==
    \E d \in Docs \ {doc} :
        /\ doc' = d
        /\ resp' = IdleResp
        /\ UNCHANGED <<env, up, store, db, overrides, closed,
                     probed_down, last, raw, parsed>>

Next ==
    \/ GetTicker
    \/ ShowConfig
    \/ HealthCheck
    \/ Root
    \/ IsAllowedCall
    \/ EditDoc
    \/ StoreChange

Spec == Init /\ [][Next]_vars

----------------------------------------------------------------------------
(* The record mapper on its own: SpecMapper *)

Vempty == <<>>
Vpadded == <<" ", "2", " ">>
Vneg == <<"-", "1", ".", "5">>
Vdots == <<"1", ".", "2", ".">>

RawValues == {V150000, V0_8, Vabc, Vempty, Vpadded, Vneg, Vdots}

NumericFields == float_fields \cup {"timestamp"}

MaxRawFields == 2

\* Raw maps with at most n numeric fields, with or without a symbol
RawMaps(n) ==
    UNION {
        UNION { {vals, vals @@ ("symbol" :> BTC_29_C)} :
                vals \in [{fs[i] : i \in DOMAIN fs} -> RawValues] } :
        fs \in UNION {[1..k -> NumericFields] : k \in 0..n} }

MapperInit ==
    /\ raw \in RawMaps(MaxRawFields)
    /\ parsed = NotParsed
    /\ env = Env0
    /\ overrides = <<>>
    /\ up = {}
    /\ doc = DocAbsent
    /\ store = StoreEmpty
    /\ resp = IdleResp
    /\ db = NoClient
    /\ closed = FALSE
    /\ probed_down = FALSE
    /\ last = IdleLast

\* _parse_option_data(raw)
ParseOptionData ==
    /\ ~parsed.done
    /\ parsed' = [done |-> TRUE, rec |-> parse_option_data(raw)]
    /\ UNCHANGED <<env, up, doc, store, resp, db, overrides, closed, probed_down,
                 last, raw>>

MapperNext == ParseOptionData

SpecMapper == MapperInit /\ [][MapperNext]_vars

\* C7: the record mapped from a non-empty raw map carries each of the 18
\* numeric fields and the timestamp: the parsed value when present and
\* parsable, 0 when present and unparsable, 0 when absent; an empty raw map
\* gives the empty record.
C7_AllFieldsDefaulted ==
    parsed.done =>
        IF DOMAIN raw = {}
        THEN DOMAIN parsed.rec = {}
        ELSE \A f \in NumericFields :
                /\ f \in DOMAIN parsed.rec
                /\ parsed.rec[f] =
                    IF f \in DOMAIN raw /\ ParseFloat(raw[f]) # <<>>
                    THEN ParseFloat(raw[f])[1]
                    ELSE 0

----------------------------------------------------------------------------
(* Claims on the client *)

\* The candidates of a connect call on client c: its primary, then the fallbacks
CandidatesOf(c) == <<c.connection_params>> \o get_fallback_configs(env)

\* The positions of the candidates whose liveness probe succeeds now
Answering(cands) == {i \in DOMAIN cands : Probe(cands[i], up)}

FirstOf(S) == CHOOSE i \in S : \A j \in S : i <= j

\* C6: every record get_options_by_expiry(expiry, asset) returns carries a
\* symbol that contains "-{expiry}-", also when the hash's symbol field is not
\* the symbol of its key.
C6_ReturnedSymbolsCarryExpiry ==
    last.op = "get_options_by_expiry" =>
        \A i \in DOMAIN last.list :
            Contains(last.list[i]["symbol"], Dash \o last.expiry \o Dash)

\* C8: connect walks primary then fallbacks, returns true exactly when some
\* candidate answers, the first answering candidate then being the active
\* configuration and the last one tried; when none answers it returns false and
\* the client holds no handle, also when it held one before the call.
C8_ConnectContract ==
    last.op \in {"__init__", "reconnect"} =>
        LET cands == CandidatesOf(last.before[1])
            S == Answering(cands)
        IN  /\ last.ok <=> (S # {})
            /\ last.ok =>
                /\ db.redis_client = <<cands[FirstOf(S)]>>
                /\ db.connection_params = cands[FirstOf(S)]
                /\ last.attempted = SubSeq(cands, 1, FirstOf(S))
            /\ ~last.ok =>
                /\ last.attempted = cands
                /\ ~is_connected(db, up)
                /\ db.redis_client = <<>>

\* C9: reconnect() tries first the configuration built from the override set
\* the client was constructed with, whatever happened to the client before.
C9_ReconnectStartsFromOriginal ==
    last.op = "reconnect" =>
        last.attempted[1] = get_connection_params(env, overrides)

\* C10: close() is idempotent and, from a close() until a connect/reconnect
\* succeeds, the client holds no handle, is_connected() is false, get_option
\* returns the empty record and get_all_symbols the empty list, whatever the
\* store holds and whether or not it is reachable.
C10_ClosedBehavesDisconnected ==
    /\ last.op = "close" =>
        /\ db.redis_client = <<>>
        /\ db.connection_params = last.before[1].connection_params
        /\ close(db) = db
    /\ closed =>
        /\ db.redis_client = <<>>
        /\ last.op = "is_connected" => ~last.ok
        /\ last.op = "get_option" => last.rec = <<>>
        /\ last.op = "get_all_symbols" => last.list = <<>>
        /\ last.op = "get_options_by_expiry" => last.list = <<>>

\* C10 witness: after a close(), with the primary endpoint answering and the
\* key present in the store, get_option returned the empty record.
C10_Witness ==
    /\ closed
    /\ last.op = "get_option"
    /\ last.symbol \in DOMAIN store
    /\ Probe(db.connection_params, up)
    /\ last.rec = <<>>

\* C11: once is_connected() has returned False on a client, every later
\* is_connected() on it returns False and every query returns empty until a
\* connect/reconnect on it succeeds, also when the store became reachable again
\* in between: Disconnected is left only by a successful handshake.
C11_DisconnectedUntilReconnect ==
    probed_down =>
        /\ last.op = "is_connected" => ~last.ok
        /\ last.op = "get_option" => last.rec = <<>>
        /\ last.op = "get_all_symbols" => last.list = <<>>
        /\ last.op = "get_options_by_expiry" => last.list = <<>>

----------------------------------------------------------------------------
(* Claims on the facade and the gate *)

\* An entry of the shape {asset: string, expiry: string}
WellFormedEntry(item) ==
    item.t = "object" /\ item.asset.t = "str" /\ item.expiry.t = "str"

\* Entry `item` is for (asset, expiry): asset ignoring case, expiry exactly
EntryIsFor(item, asset, expiry) ==
    /\ WellFormedEntry(item)
    /\ Upper(item.asset.s) = Upper(asset)
    /\ item.expiry.s = expiry

\* The allow-list as loaded has an entry for (asset, expiry)
SomeEntryMatches(d, asset, expiry) ==
    LET config == load_config(d)
    IN  /\ config.kind = "object"
        /\ config.allowed.t = "list"
        /\ \E i \in DOMAIN config.allowed.items :
               EntryIsFor(config.allowed.items[i], asset, expiry)

\* The document has the shape {allowed: [{asset, expiry}, ...]}
WellFormedDoc(d) ==
    /\ d.kind = "object"
    /\ d.allowed.t = "list"
    /\ \A i \in DOMAIN d.allowed.items : WellFormedEntry(d.allowed.items[i])

\* Every connection candidate of a facade request fails
StoreUnreachable ==
    /\ ~EnvRaises(env)
    /\ LET cands == CandidatesOf([NoClient EXCEPT !.connection_params =
                                     get_connection_params(env, <<>>)])
       IN  Answering(cands) = {}

\* The number of entries of the allow-list as loaded (0 when it has no list)
EntryCount(d) ==
    LET config == load_config(d)
    IN  IF config.kind = "object" /\ config.allowed.t = "list"
        THEN Len(config.allowed.items) ELSE 0

\* C1: a ticker request whose pair has no entry in the allow-list as loaded
\* ends 404, and no client is constructed, no connection attempted and no
\* store query issued during it.
C1_GateBeforeStore ==
    (resp.handler = "ticker" /\ ~SomeEntryMatches(doc, resp.asset, resp.expiry)) =>
        /\ resp.code = 404
        /\ ~resp.constructed
        /\ resp.attempts = 0
        /\ resp.queries = 0

\* C2: a ticker request whose pair is in the allow-list, while every
\* connection candidate fails, is answered 503.
C2_Unreachable503 ==
    (/\ resp.handler = "ticker"
     /\ SomeEntryMatches(doc, resp.asset, resp.expiry)
     /\ StoreUnreachable) =>
        resp.code = 503

\* C3: a ticker, config or health request that constructed a client has
\* called close() on it when it returns, and the client holds no handle.
C3_ClientReleased ==
    (resp.handler \in {"ticker", "config", "health"} /\ resp.constructed) =>
        (resp.closed /\ resp.handle = <<>>)

\* C4: the health status is "healthy" exactly when the store is reachable and
\* the allow-list has an entry, "unhealthy" otherwise, and nothing else; with
\* every candidate failing it is "unhealthy" with database "disconnected".
C4_HealthStatus ==
    resp.handler = "health" =>
        /\ resp.status \in {"healthy", "unhealthy"}
        /\ resp.status = "healthy" <=>
               (~EnvRaises(env) /\ ~StoreUnreachable /\ EntryCount(doc) > 0)
        /\ StoreUnreachable =>
               (resp.status = "unhealthy" /\ resp.database = "disconnected")

\* C5: is_allowed never raises, and is true exactly when the document is of
\* the shape {allowed: [{asset, expiry}, ...]} and has an entry for the pair;
\* an absent or malformed document gives false for every input.
C5_IsAllowed ==
    resp.handler = "is_allowed" =>
        /\ resp.allowed # "raise"
        /\ resp.allowed = "true" <=>
               (WellFormedDoc(doc) /\ SomeEntryMatches(doc, resp.asset, resp.expiry))

----------------------------------------------------------------------------
(* What the code does guarantee next to the statements above *)

\* A ticker request the gate did not let through touched no store
GateBeforeStoreAccess ==
    (resp.handler = "ticker" /\ resp.allowed # "true") =>
        /\ resp.code \in {404, 500}
        /\ (resp.code = 404) <=> (resp.allowed = "false")
        /\ ~resp.constructed
        /\ resp.attempts = 0
        /\ resp.queries = 0

\* The gate lets a pair through only if the loaded list has an entry for it
GateOnlyAdmitsListed ==
    (resp.handler \in {"ticker", "is_allowed"} /\ resp.allowed = "true") =>
        SomeEntryMatches(doc, resp.asset, resp.expiry)

\* On a well-formed document is_allowed decides membership and does not raise
GateOnWellFormedDoc ==
    (resp.handler = "is_allowed" /\ WellFormedDoc(load_config(doc))) =>
        /\ resp.allowed # "raise"
        /\ (resp.allowed = "true") <=>
               SomeEntryMatches(doc, resp.asset, resp.expiry)

\* No ticker request is ever answered 503
TickerNever503 == resp.handler = "ticker" => resp.code \in {200, 404, 500}

\* get_ticker and show_config release the client they construct
TickerAndConfigRelease ==
    (resp.handler \in {"ticker", "config"} /\ resp.constructed) =>
        (resp.closed /\ resp.handle = <<>>)

\* The fields of the raw map are mapped as stated; the others are left out
MapperOnPresentFields ==
    parsed.done =>
        IF DOMAIN raw = {}
        THEN DOMAIN parsed.rec = {}
        ELSE /\ DOMAIN parsed.rec = {"symbol"} \cup (NumericFields \cap DOMAIN raw)
             /\ \A f \in NumericFields \cap DOMAIN raw :
                    parsed.rec[f] = IF ParseFloat(raw[f]) # <<>>
                                    THEN ParseFloat(raw[f])[1] ELSE 0

\* connect but for the handle a failed call leaves behind
ConnectButForStaleHandle ==
    last.op \in {"__init__", "reconnect"} =>
        LET cands == CandidatesOf(last.before[1])
            S == Answering(cands)
        IN  /\ last.ok <=> (S # {})
            /\ last.ok =>
                /\ db.redis_client = <<cands[FirstOf(S)]>>
                /\ db.connection_params = cands[FirstOf(S)]
                /\ last.attempted = SubSeq(cands, 1, FirstOf(S))
            /\ ~last.ok =>
                /\ last.attempted = cands
                /\ ~is_connected(db, up)
                /\ db = last.before[1]

\* The handle a client holds was opened with its connection_params
HandleMatchesParams ==
    db.redis_client # <<>> => db.redis_client[1] = db.connection_params

\* What is_connected() and the queries answer is the ping of the handle at the
\* time of the call: the client keeps no connection state besides the handle
AnswerIsThePingOfTheHandle ==
    /\ last.op = "is_connected" => (last.ok <=> is_connected(db, up))
    /\ last.op = "get_option" /\ ~is_connected(db, up) => last.rec = <<>>
    /\ last.op \in {"get_all_symbols", "get_options_by_expiry"}
           /\ ~is_connected(db, up) => last.list = <<>>

\* A failed ping leaves the handle in place: only a successful connect
\* replaces it and only close() drops it
HandleChangesOnlyByConnectOrClose ==
    [][db'.redis_client # db.redis_client =>
          \/ last'.op = "reconnect" /\ last'.ok
          \/ last'.op = "close"]_vars

====
